---- MODULE Spec2Model ----
(***************************************************************************)
(* Model of capture-requests-msw: RequestCapturer (src/src/index.ts), the  *)
(* batch store, the deterministic sort applied at checkpoint and the       *)
(* inactivity timer that fires automatic checkpoints.                      *)
(*                                                                         *)
(* Strings that the code compares (url, method) are sequences of UTF-16    *)
(* code units; the body is never inspected and is kept as an optional      *)
(* value: <<>> when the property is absent, <<s>> when it is the string s. *)
(* Time is counted in ticks; a timer of the host (setTimeout) is a record  *)
(* of its id and the ticks that remain before it is due.                   *)
(*                                                                         *)
(* The specifications share the state. Spec is the Capturer driven by      *)
(* addRequest and checkpoint. HandlerSpec is the request adapter with its  *)
(* gate, createRequestsCaptureHandler(options) of src/unnamed/part_000,    *)
(* built on the same batch, sort and timer. SequentialSpec is HandlerSpec  *)
(* under a client that awaits each response before the next request.       *)
(* CaptureSpec follows one run of the adapter, for any Request, up to the  *)
(* request it records. ResetSpec is the gated adapter with reset() among   *)
(* its operations. PairSpec is two instances on one host. RandomSpec is    *)
(* the generator SeededRandom of the test utilities. ReturningSpec is Spec *)
(* with timeoutMs and a handler that returns; ReentrantSpec adds a handler *)
(* that calls addRequest; TimerOnlySpec is the gated adapter left to its   *)
(* timer, under a fair host; ClosureSpec follows the arrays of checkpoint  *)
(* by reference.                                                           *)
(***************************************************************************)
EXTENDS Integers, Sequences, FiniteSets, Bags, TLC

\* ------------------------------------------------------------------ bounds

\* Observations (addRequest calls) made over one run.
MaxObs == 3

\* Manual checkpoint() calls made over one run.
MaxCheckpoints == 2

\* The timeoutMs a Capturer is configured with, in ticks.
TimeoutTicks == 2

\* Requests the client sends through the request adapter over one run.
MaxRequests == 2

\* Calls made on one SeededRandom.
MaxCalls == 3

\* ------------------------------------------------------------ the requests

\* "GET", "POST"
GET == <<71, 69, 84>>
POST == <<80, 79, 83, 84>>

\* "/a", "/B"
UrlA == <<47, 97>>
UrlB == <<47, 66>>

\* interface CapturedRequest { method: string; url: string; body?: string }
\* The requests of the model: two urls, two methods on one of them, and two
\* requests that differ in the body alone (absent, and the string "x").
CapturedRequest ==
  { [method |-> GET,  url |-> UrlA, body |-> <<>>],
    [method |-> POST, url |-> UrlA, body |-> <<>>],
    [method |-> POST, url |-> UrlA, body |-> <<"x">>],
    [method |-> GET,  url |-> UrlB, body |-> <<>>] }

\* ------------------------------------------------------------ the sorting

IsUpper(c) == c >= 65 /\ c <= 90
IsLower(c) == c >= 97 /\ c <= 122

\* Primary collation weight of a code unit among '/', digits and letters:
\* punctuation < digits < letters, letters compared without case.
PrimaryWeight(c) == IF IsLower(c) THEN c - 32 ELSE c

\* Tertiary weight: a lowercase letter sorts before the same uppercase letter.
TertiaryWeight(c) == IF IsUpper(c) THEN 1 ELSE 0

\* The weights of the code units of a string.
PrimaryKey(s) == [i \in 1..Len(s) |-> PrimaryWeight(s[i])]
TertiaryKey(s) == [i \in 1..Len(s) |-> TertiaryWeight(s[i])]

RECURSIVE SeqCompare(_, _)
\* Lexicographic comparison of two sequences of weights: -1, 0 or 1.
SeqCompare(s, t) ==
  IF s = <<>> /\ t = <<>> THEN 0
  ELSE IF s = <<>> THEN -1
  ELSE IF t = <<>> THEN 1
  ELSE IF Head(s) < Head(t) THEN -1
  ELSE IF Head(s) > Head(t) THEN 1
  ELSE SeqCompare(Tail(s), Tail(t))

\* The comparison of two strings code unit by code unit: -1, 0 or 1.
OrdinalCompare(s, t) == SeqCompare(s, t)

\* String.prototype.localeCompare under the default (root) collation: the
\* strings are compared by their primary weights, and only when these are
\* equal throughout by their tertiary weights.
LocaleCompare(s, t) ==
  LET p == SeqCompare(PrimaryKey(s), PrimaryKey(t))
  IN  IF p # 0 THEN p ELSE SeqCompare(TertiaryKey(s), TertiaryKey(t))

\* A comparator that forgets the secondary key.
CompareUrlOnly(a, b) == LocaleCompare(a.url, b.url)

\* A comparator with the keys in the wrong priority.
CompareMethodFirst(a, b) ==
  IF a.method = b.method THEN LocaleCompare(a.url, b.url)
  ELSE LocaleCompare(a.method, b.method)

\* The comparator handed to sort: by url, and by method when the urls are equal.
Compare(a, b) ==
  IF a.url = b.url THEN LocaleCompare(a.method, b.method)
  ELSE LocaleCompare(a.url, b.url)

\* What the comparator returns for each pair of requests of the model.
Comparisons == [a \in CapturedRequest, b \in CapturedRequest |-> Compare(a, b)]

RECURSIVE InsertBeforeEqual(_, _)
\* An insertion that places x before the elements that compare equal to it.
InsertBeforeEqual(s, x) ==
  IF s = <<>> THEN <<x>>
  ELSE IF Comparisons[x, Head(s)] <= 0 THEN <<x>> \o s
  ELSE <<Head(s)>> \o InsertBeforeEqual(Tail(s), x)

RECURSIVE Insert(_, _)
\* x placed into the sorted sequence s after every element that is not greater.
Insert(s, x) ==
  IF s = <<>> THEN <<x>>
  ELSE IF Comparisons[x, Head(s)] < 0 THEN <<x>> \o s
  ELSE <<Head(s)>> \o Insert(Tail(s), x)

RECURSIVE SortInto(_, _)
SortInto(acc, rest) ==
  IF rest = <<>> THEN acc ELSE SortInto(Insert(acc, Head(rest)), Tail(rest))

\* [...batch].sort(comparator): a stable sort of a copy of the batch.
SortRequests(batch) == SortInto(<<>>, batch)

\* ---------------------------------------------------------------- the state

VARIABLES
  currentBatch,           \* RequestCapturer.currentBatch, in arrival order
  autoCheckpointOptions,  \* RequestCapturer.autoCheckpointOptions
  timeoutId,              \* RequestCapturer.timeoutId: a timer id, 0 when undefined
  timers,                 \* the host's pending timers: {[id, remaining]}
  pc,                     \* "idle", or "handler" while checkpoint() runs the handler
  sortedRequests,         \* checkpoint()'s sortedRequests while the handler runs
  observed,               \* history: how often each request was passed to addRequest
  delivered,              \* history: how often each request was passed to the handler
  sinceCheckpoint,        \* history: the requests observed since the last checkpoint()
  manualCheckpoints,      \* history: checkpoint() calls made by the user
  idleFor,                \* history: ticks since the last addRequest
  lastOp,                 \* history: the step that led to this state
  waitForCheckpoint,      \* options.waitForCheckpoint of createRequestsCaptureHandler
  pendingResponses,       \* the resolve callbacks of the waiting adapters, by request id
  inflight,               \* per request id: where its run of requestHandler stands
  microtasks,             \* the continuations resolve() made runnable, in order
  batchIds,               \* history: the ids of the requests in currentBatch
  handled,                \* history: ids whose batch the handler was called with and left
  uncaught,               \* history: who received the exception the last step raised
  discarded,              \* history: ids of the requests a reset() removed from the batch
  incoming,               \* the Request one run of the adapter is given
  capturedRequest,        \* that run's capturedRequest, <<>> before it is built
  adapterPc,              \* that run's position
  seed,                   \* SeededRandom.seed: a sign and two 16-bit limbs
  calls,                  \* history: calls made on the generator
  called,                 \* history: the last call and its arguments
  returned,               \* history: what the last call returned
  heap,                   \* the arrays of one handler, by reference: heap[1] is its batch
  kept                    \* history: what each array the handler was given should hold

\* The state of the Capturer and its history.
capturer == << currentBatch, autoCheckpointOptions, timeoutId, timers, pc, sortedRequests,
               observed, delivered, sinceCheckpoint, manualCheckpoints, idleFor, lastOp >>

\* The state of the request adapter, its gate and its history.
adapter == << waitForCheckpoint, pendingResponses, inflight, microtasks, batchIds,
              handled, uncaught, discarded >>

\* The state of the single run of the adapter that builds a capturedRequest.
capture == << incoming, capturedRequest, adapterPc >>

\* The state of the generator of the test utilities and its history.
random == << seed, calls, called, returned >>

\* The arrays followed by reference, and their history.
arrays == << heap, kept >>

vars == << capturer, adapter, capture, random, arrays >>

\* Counting requests: a count per request, and the counts of a sequence.
NoRequests == [r \in CapturedRequest |-> 0]

CountIn(s, r) == Cardinality({i \in 1..Len(s) : s[i] = r})

CountsOf(s) == [r \in CapturedRequest |-> CountIn(s, r)]

Plus(c, d) == [r \in CapturedRequest |-> c[r] + d[r]]

RECURSIVE SumOver(_, _)
SumOver(c, S) ==
  IF S = {} THEN 0
  ELSE LET r == CHOOSE x \in S : TRUE IN c[r] + SumOver(c, S \ {r})

Total(c) == SumOver(c, CapturedRequest)

\* new RequestCapturer(handler): no auto-checkpoint options.
NoOptions == [configured |-> FALSE, timeoutMs |-> 0]

\* new RequestCapturer(handler, { timeoutMs })
WithTimeout == [configured |-> TRUE, timeoutMs |-> TimeoutTicks]

\* The clocks of the history stop counting here; no formula looks further.
ClockCap == TimeoutTicks

Min(a, b) == IF a < b THEN a ELSE b

\* ---------------------------------------------------------------- the timer

\* The ticks left on the timer the Capturer remembers, -1 when it has none pending.
TimeLeft(tid, tms) ==
  IF \E t \in tms : t.id = tid
  THEN (CHOOSE t \in tms : t.id = tid).remaining
  ELSE -1

\* clearAutoCheckpointTimer() that forgets the id without clearTimeout.
ForgetAutoCheckpointTimer(tid, tms) == [timeoutId |-> 0, timers |-> tms]

\* clearAutoCheckpointTimer(): clearTimeout of the remembered id, if any.
ClearAutoCheckpointTimer(tid, tms) ==
  IF tid # 0
  THEN [timeoutId |-> 0, timers |-> {t \in tms : t.id # tid}]
  ELSE [timeoutId |-> tid, timers |-> tms]

\* The id setTimeout returns: one no pending timer carries.
FreshTimerId(tms) ==
  CHOOSE i \in 1..(Cardinality(tms) + 1) :
    /\ \A t \in tms : t.id # i
    /\ \A j \in 1..(i - 1) : \E t \in tms : t.id = j

\* startAutoCheckpointTimer() that schedules without cancelling first.
StartWithoutClear(opts, tid, tms) ==
  IF ~opts.configured THEN [timeoutId |-> tid, timers |-> tms]
  ELSE LET id == FreshTimerId(tms)
       IN  [timeoutId |-> id,
            timers |-> tms \cup {[id |-> id, remaining |-> opts.timeoutMs]}]

\* startAutoCheckpointTimer() that schedules whatever the configuration is.
StartUnconditionally(opts, tid, tms) ==
  LET c  == ClearAutoCheckpointTimer(tid, tms)
      id == FreshTimerId(c.timers)
  IN  [timeoutId |-> id,
       timers |-> c.timers \cup {[id |-> id, remaining |-> TimeoutTicks]}]

\* startAutoCheckpointTimer() that keeps the time the previous timer had left.
StartKeepingDeadline(opts, tid, tms) ==
  IF ~opts.configured THEN [timeoutId |-> tid, timers |-> tms]
  ELSE LET c   == ClearAutoCheckpointTimer(tid, tms)
           id  == FreshTimerId(c.timers)
           old == {t \in tms : t.id = tid}
           ms  == IF old = {} THEN opts.timeoutMs
                  ELSE (CHOOSE t \in old : TRUE).remaining
       IN  [timeoutId |-> id,
            timers |-> c.timers \cup {[id |-> id, remaining |-> ms]}]

\* startAutoCheckpointTimer(): nothing without options; otherwise cancel the
\* pending timer and schedule checkpoint() timeoutMs from now.
StartAutoCheckpointTimer(opts, tid, tms) ==
  IF ~opts.configured THEN [timeoutId |-> tid, timers |-> tms]
  ELSE LET c  == ClearAutoCheckpointTimer(tid, tms)
           id == FreshTimerId(c.timers)
       IN  [timeoutId |-> id,
            timers |-> c.timers \cup {[id |-> id, remaining |-> opts.timeoutMs]}]

\* ------------------------------------------------------------ the operations

\* What lastOp records of a step: the operation, who called it, the length of
\* the batch it found and the ticks left on the timer that was pending.
Step(op, by, found, left) == [op |-> op, by |-> by, found |-> found, left |-> left]

\* ------------------------------------------------------ the request adapter

\* "PUT", "PATCH", "DELETE"
PUT == <<80, 85, 84>>
PATCH == <<80, 65, 84, 67, 72>>
DELETE == <<68, 69, 76, 69, 84, 69>>

\* The Request objects the adapter is given. body is <<>> when request.body is
\* null and <<s>> when it is a stream of the text s; readable tells whether
\* request.clone().text() fulfils or rejects.
Request ==
  [method : {GET, POST, PUT, PATCH, DELETE}, url : {UrlA, UrlB},
   body : {<<>>, <<"">>, <<"x">>}, readable : BOOLEAN]

\* The condition on request.body that ignores the method.
NeedsReadAnyMethod(r) == r.body # <<>>

\* request.body && ['POST', 'PUT', 'PATCH'].includes(request.method)
NeedsRead(r) == r.body # <<>> /\ r.method \in {POST, PUT, PATCH}

\* const capturedRequest = { method: request.method, url: request.url }
Bare(r) == [method |-> r.method, url |-> r.url, body |-> <<>>]

\* capturedRequest.body = body, with body the text request.clone().text() gave
WithBody(c, text) == [c EXCEPT !.body = <<text>>]

\* The requests the client of the model sends: one without a body, one whose
\* body can be read and one whose body cannot.
Intercepted ==
  { [method |-> GET,  url |-> UrlB, body |-> <<>>,    readable |-> TRUE],
    [method |-> POST, url |-> UrlA, body |-> <<"x">>, readable |-> TRUE],
    [method |-> POST, url |-> UrlA, body |-> <<"x">>, readable |-> FALSE] }

\* The ids of the requests the client sends, in the order it sends them.
RequestIds == 1..MaxRequests

\* One run of requestHandler: not started ("unsent"), at the await of the
\* body ("reading"), at the await of the gate ("waiting"), resolved but not
\* yet resumed ("released"), or returned ("fallthrough") with its result.
Run(stage, r, result) == [stage |-> stage, request |-> r, result |-> result]

Unsent == Run("unsent", <<>>, "none")

\* The elements of a sequence.
Range(s) == {s[i] : i \in 1..Len(s)}

\* No adapter is installed: the Capturer is used through addRequest alone.
NoAdapter ==
  /\ waitForCheckpoint = FALSE
  /\ pendingResponses = <<>>
  /\ inflight = [i \in RequestIds |-> Unsent]
  /\ microtasks = <<>>
  /\ batchIds = <<>>
  /\ handled = {}
  /\ uncaught = "none"
  /\ discarded = {}

\* No single run of the adapter is followed.
NoCapture ==
  /\ incoming = [method |-> GET, url |-> UrlA, body |-> <<>>, readable |-> TRUE]
  /\ capturedRequest = <<>>
  /\ adapterPc = "none"

\* No array is followed by reference.
NoArrays ==
  /\ heap = <<>>
  /\ kept = <<>>

\* No generator is in use.
NoRandom ==
  /\ seed = [neg |-> FALSE, hi |-> 0, lo |-> 0]
  /\ calls = 0
  /\ called = [op |-> "none", min |-> 0, max |-> 0, array |-> <<>>]
  /\ returned = <<>>

\* new RequestCapturer(handler, options?)
NewCapturer ==
  /\ currentBatch = <<>>
  /\ autoCheckpointOptions \in {NoOptions, WithTimeout}
  /\ timeoutId = 0
  /\ timers = {}
  /\ pc = "idle"
  /\ sortedRequests = <<>>
  /\ observed = NoRequests
  /\ delivered = NoRequests
  /\ sinceCheckpoint = <<>>
  /\ manualCheckpoints = 0
  /\ idleFor = 0
  /\ lastOp = Step("new", "user", 0, -1)

Init == NewCapturer /\ NoAdapter /\ NoCapture /\ NoRandom /\ NoArrays

\* addRequest(request) that also hands the request to the handler at once.
AddRequestAndDeliver(request) ==
  /\ pc = "idle"
  /\ Total(observed) < MaxObs
  /\ currentBatch' = Append(currentBatch, request)
  /\ LET s == StartAutoCheckpointTimer(autoCheckpointOptions, timeoutId, timers)
     IN  timeoutId' = s.timeoutId /\ timers' = s.timers
  /\ observed' = Plus(observed, CountsOf(<<request>>))
  /\ sinceCheckpoint' = Append(sinceCheckpoint, request)
  /\ idleFor' = 0
  /\ lastOp' = Step("addRequest", "user", Len(currentBatch), TimeLeft(timeoutId, timers))
  /\ sortedRequests' = <<request>>
  /\ delivered' = Plus(delivered, CountsOf(<<request>>))
  /\ pc' = "handler"
  /\ UNCHANGED << autoCheckpointOptions, manualCheckpoints >>

\* addRequest(request): push onto the batch, then restart the timer.
AddRequest(request) ==
  /\ pc = "idle"
  /\ Total(observed) < MaxObs
  /\ currentBatch' = Append(currentBatch, request)
  /\ LET s == StartAutoCheckpointTimer(autoCheckpointOptions, timeoutId, timers)
     IN  timeoutId' = s.timeoutId /\ timers' = s.timers
  /\ observed' = Plus(observed, CountsOf(<<request>>))
  /\ sinceCheckpoint' = Append(sinceCheckpoint, request)
  /\ idleFor' = 0
  /\ lastOp' = Step("addRequest", "user", Len(currentBatch), TimeLeft(timeoutId, timers))
  /\ UNCHANGED << autoCheckpointOptions, pc, sortedRequests, delivered,
                  manualCheckpoints >>

\* checkpoint() that calls the handler whatever the length of the batch.
CheckpointAlwaysCalling(by, tms) ==
  /\ LET c == ClearAutoCheckpointTimer(timeoutId, tms)
     IN  timeoutId' = c.timeoutId /\ timers' = c.timers
  /\ sortedRequests' = SortRequests(currentBatch)
  /\ delivered' = Plus(delivered, CountsOf(sortedRequests'))
  /\ pc' = "handler"
  /\ lastOp' = Step("checkpoint", by, Len(currentBatch), TimeLeft(timeoutId, timers))
  /\ UNCHANGED << currentBatch, sinceCheckpoint, autoCheckpointOptions, observed, idleFor >>

\* checkpoint() that clears the timer after the call of the handler, not
\* before it.
CheckpointClearingLast(by, tms) ==
  /\ IF Len(currentBatch) > 0
     THEN /\ timeoutId' = timeoutId
          /\ timers' = tms
          /\ sortedRequests' = SortRequests(currentBatch)
          /\ delivered' = Plus(delivered, CountsOf(sortedRequests'))
          /\ pc' = "handler"
          /\ UNCHANGED << currentBatch, sinceCheckpoint >>
     ELSE /\ LET c == ClearAutoCheckpointTimer(timeoutId, tms)
             IN  timeoutId' = c.timeoutId /\ timers' = c.timers
          /\ currentBatch' = <<>>
          /\ sinceCheckpoint' = <<>>
          /\ pc' = "idle"
          /\ UNCHANGED << sortedRequests, delivered >>
  /\ lastOp' = Step("checkpoint", by, Len(currentBatch), TimeLeft(timeoutId, timers))
  /\ UNCHANGED << autoCheckpointOptions, observed, idleFor >>

\* checkpoint() that leaves the pending timer alone.
CheckpointKeepingTimer(by, tms) ==
  /\ timeoutId' = timeoutId
  /\ timers' = tms
  /\ IF Len(currentBatch) > 0
     THEN /\ sortedRequests' = SortRequests(currentBatch)
          /\ delivered' = Plus(delivered, CountsOf(sortedRequests'))
          /\ pc' = "handler"
          /\ UNCHANGED << currentBatch, sinceCheckpoint >>
     ELSE /\ currentBatch' = <<>>
          /\ sinceCheckpoint' = <<>>
          /\ pc' = "idle"
          /\ UNCHANGED << sortedRequests, delivered >>
  /\ lastOp' = Step("checkpoint", by, Len(currentBatch), TimeLeft(timeoutId, timers))
  /\ UNCHANGED << autoCheckpointOptions, observed, idleFor >>

\* checkpoint() up to the call of the handler: cancel the timer; with a
\* non-empty batch hand a sorted copy to the handler, which is then running;
\* with an empty batch go straight to the final assignment of the batch.
\* tms is the host's timer table when checkpoint() is entered.
Checkpoint(by, tms) ==
  /\ LET c == ClearAutoCheckpointTimer(timeoutId, tms)
     IN  timeoutId' = c.timeoutId /\ timers' = c.timers
  /\ IF Len(currentBatch) > 0
     THEN /\ sortedRequests' = SortRequests(currentBatch)
          /\ delivered' = Plus(delivered, CountsOf(sortedRequests'))
          /\ pc' = "handler"
          /\ UNCHANGED << currentBatch, sinceCheckpoint >>
     ELSE /\ currentBatch' = <<>>
          /\ sinceCheckpoint' = <<>>
          /\ pc' = "idle"
          /\ UNCHANGED << sortedRequests, delivered >>
  /\ lastOp' = Step("checkpoint", by, Len(currentBatch), TimeLeft(timeoutId, timers))
  /\ UNCHANGED << autoCheckpointOptions, observed, idleFor >>

\* The user calls checkpoint().
ManualCheckpoint ==
  /\ pc = "idle"
  /\ manualCheckpoints < MaxCheckpoints
  /\ manualCheckpoints' = manualCheckpoints + 1
  /\ Checkpoint("manual", timers)

\* A due timer of the host runs its callback, () => this.checkpoint(); the
\* host has dropped the timer from its table by then.
TimerFire ==
  /\ pc = "idle"
  /\ \E t \in timers :
       /\ t.remaining = 0
       /\ UNCHANGED manualCheckpoints
       /\ Checkpoint("timer", timers \ {t})

\* A return of the handler after which checkpoint() leaves the batch as it is.
HandlerReturnKeepingBatch ==
  /\ pc = "handler"
  /\ pc' = "idle"
  /\ sortedRequests' = <<>>
  /\ sinceCheckpoint' = <<>>
  /\ lastOp' = Step("return", lastOp.by, lastOp.found, -1)
  /\ UNCHANGED << currentBatch, autoCheckpointOptions, timeoutId, timers, observed,
                  delivered, manualCheckpoints, idleFor >>

\* The handler returns: checkpoint() ends with this.currentBatch = [].
HandlerReturn ==
  /\ pc = "handler"
  /\ currentBatch' = <<>>
  /\ pc' = "idle"
  /\ sortedRequests' = <<>>
  /\ sinceCheckpoint' = <<>>
  /\ lastOp' = Step("return", lastOp.by, lastOp.found, -1)
  /\ UNCHANGED << autoCheckpointOptions, timeoutId, timers, observed, delivered,
                  manualCheckpoints, idleFor >>

\* The handler throws: the exception leaves checkpoint() at the call, and the
\* assignment after it does not run.
HandlerThrow ==
  /\ pc = "handler"
  /\ pc' = "idle"
  /\ sortedRequests' = <<>>
  /\ sinceCheckpoint' = <<>>
  /\ lastOp' = Step("throw", lastOp.by, lastOp.found, -1)
  /\ UNCHANGED << currentBatch, autoCheckpointOptions, timeoutId, timers, observed,
                  delivered, manualCheckpoints, idleFor >>

\* One tick of time passes between two tasks of the event loop.
Tick ==
  /\ pc = "idle"
  /\ timers' = {[id |-> t.id, remaining |-> IF t.remaining > 0 THEN t.remaining - 1 ELSE 0]
                  : t \in timers}
  /\ idleFor' = Min(idleFor + 1, ClockCap)
  /\ lastOp' = Step("tick", "host", Len(currentBatch), TimeLeft(timeoutId, timers))
  /\ UNCHANGED << currentBatch, autoCheckpointOptions, timeoutId, pc, sortedRequests,
                  observed, delivered, sinceCheckpoint, manualCheckpoints >>

\* The Capturer used through addRequest and checkpoint, no adapter installed.
Next ==
  \/ \E request \in CapturedRequest : AddRequest(request) /\ UNCHANGED << adapter, capture, random, arrays >>
  \/ ManualCheckpoint /\ UNCHANGED << adapter, capture, random, arrays >>
  \/ TimerFire /\ UNCHANGED << adapter, capture, random, arrays >>
  \/ HandlerReturn /\ UNCHANGED << adapter, capture, random, arrays >>
  \/ HandlerThrow /\ UNCHANGED << adapter, capture, random, arrays >>
  \/ Tick /\ UNCHANGED << adapter, capture, random, arrays >>

Spec == Init /\ [][Next]_vars

\* The Capturer with timeoutMs and a handler that always returns.
NewTimedCapturer == Init /\ autoCheckpointOptions = WithTimeout

ReturningNext ==
  \/ \E request \in CapturedRequest : AddRequest(request) /\ UNCHANGED << adapter, capture, random, arrays >>
  \/ ManualCheckpoint /\ UNCHANGED << adapter, capture, random, arrays >>
  \/ TimerFire /\ UNCHANGED << adapter, capture, random, arrays >>
  \/ HandlerReturn /\ UNCHANGED << adapter, capture, random, arrays >>
  \/ Tick /\ UNCHANGED << adapter, capture, random, arrays >>

ReturningSpec == NewTimedCapturer /\ [][ReturningNext]_vars

\* The handler, while checkpoint() runs it, calls addRequest(request): the
\* request is pushed onto the batch that checkpoint() empties on return, and
\* a timer is armed.
AddRequestInHandler(request) ==
  /\ pc = "handler"
  /\ Total(observed) < MaxObs
  /\ currentBatch' = Append(currentBatch, request)
  /\ LET s == StartAutoCheckpointTimer(autoCheckpointOptions, timeoutId, timers)
     IN  timeoutId' = s.timeoutId /\ timers' = s.timers
  /\ observed' = Plus(observed, CountsOf(<<request>>))
  /\ idleFor' = 0
  /\ lastOp' = Step("addRequest", "handler", Len(currentBatch), TimeLeft(timeoutId, timers))
  /\ UNCHANGED << autoCheckpointOptions, pc, sortedRequests, delivered, sinceCheckpoint,
                  manualCheckpoints >>

\* The Capturer with timeoutMs and a handler that may call addRequest.
ReentrantNext ==
  \/ \E r \in Intercepted : AddRequest(Bare(r)) /\ UNCHANGED << adapter, capture, random, arrays >>
  \/ \E r \in Intercepted :
       AddRequestInHandler(Bare(r)) /\ UNCHANGED << adapter, capture, random, arrays >>
  \/ ManualCheckpoint /\ UNCHANGED << adapter, capture, random, arrays >>
  \/ TimerFire /\ UNCHANGED << adapter, capture, random, arrays >>
  \/ HandlerReturn /\ UNCHANGED << adapter, capture, random, arrays >>
  \/ HandlerThrow /\ UNCHANGED << adapter, capture, random, arrays >>
  \/ Tick /\ UNCHANGED << adapter, capture, random, arrays >>

ReentrantSpec == NewTimedCapturer /\ [][ReentrantNext]_vars

\* ------------------------------------- createRequestsCaptureHandler(options)

\* The version of the library that returns { handler, checkpoint }: the batch,
\* the sort and the timer are those of the Capturer above; checkpoint() ends
\* by resolving the promises of the adapters that wait for it.

\* createRequestsCaptureHandler({ handler, options? }): waitForCheckpoint is
\* a member of the options, next to timeoutMs.
NewHandler ==
  /\ NewCapturer
  /\ waitForCheckpoint \in BOOLEAN
  /\ waitForCheckpoint => autoCheckpointOptions.configured
  /\ pendingResponses = <<>>
  /\ inflight = [i \in RequestIds |-> Unsent]
  /\ microtasks = <<>>
  /\ batchIds = <<>>
  /\ handled = {}
  /\ uncaught = "none"
  /\ discarded = {}
  /\ NoCapture
  /\ NoRandom
  /\ NoArrays

\* const responses = pendingResponses; pendingResponses = [];
\* responses.forEach(resolve => resolve()): each resolved promise queues the
\* continuation of its adapter.
Release ==
  /\ pendingResponses' = <<>>
  /\ microtasks' = microtasks \o pendingResponses
  /\ inflight' = [i \in RequestIds |->
                    IF i \in Range(pendingResponses)
                    THEN [inflight[i] EXCEPT !.stage = "released"]
                    ELSE inflight[i]]

\* The end of checkpoint() that resolves the promises before the handler is
\* called.
AfterCheckpointEager ==
  /\ Release
  /\ batchIds' = IF Len(currentBatch) > 0 THEN batchIds ELSE <<>>
  /\ uncaught' = "none"
  /\ UNCHANGED << waitForCheckpoint, discarded, handled, capture, random, arrays >>

\* The end of a checkpoint() that resolves the promises only after a call of
\* the handler.
AfterCheckpointKeeping ==
  /\ UNCHANGED << pendingResponses, microtasks, inflight >>
  /\ batchIds' = IF Len(currentBatch) > 0 THEN batchIds ELSE <<>>
  /\ uncaught' = "none"
  /\ UNCHANGED << waitForCheckpoint, discarded, handled, capture, random, arrays >>

\* What follows the call of checkpoint(): with a batch the handler is running
\* and nothing else has happened; without one checkpoint() has gone on to
\* empty the batch and to resolve the promises.
AfterCheckpoint ==
  /\ IF Len(currentBatch) > 0
     THEN UNCHANGED << pendingResponses, microtasks, inflight, batchIds >>
     ELSE Release /\ batchIds' = <<>>
  /\ uncaught' = "none"
  /\ UNCHANGED << waitForCheckpoint, discarded, handled, capture, random, arrays >>

\* The synchronous stretch of requestHandler that ignores waitForCheckpoint
\* and returns at once.
RecordNeverWaiting(i, c) ==
  /\ AddRequest(c)
  /\ batchIds' = Append(batchIds, i)
  /\ inflight' = [inflight EXCEPT ![i] = Run("fallthrough", <<>>, "undefined")]
  /\ uncaught' = "none"
  /\ UNCHANGED << pendingResponses, waitForCheckpoint, discarded, microtasks, handled, capture, random, arrays >>

\* The synchronous stretch of requestHandler that waits whatever
\* waitForCheckpoint is.
RecordAlwaysWaiting(i, c) ==
  /\ AddRequest(c)
  /\ batchIds' = Append(batchIds, i)
  /\ pendingResponses' = Append(pendingResponses, i)
  /\ inflight' = [inflight EXCEPT ![i] = Run("waiting", <<>>, "none")]
  /\ uncaught' = "none"
  /\ UNCHANGED << waitForCheckpoint, discarded, microtasks, handled, capture, random, arrays >>

\* The synchronous stretch of requestHandler once capturedRequest c is built:
\* currentBatch.push(c); startAutoCheckpointTimer(); then, with
\* waitForCheckpoint, the await of a promise whose resolve is pushed onto
\* pendingResponses, and without it return undefined.
Record(i, c) ==
  /\ AddRequest(c)
  /\ batchIds' = Append(batchIds, i)
  /\ IF waitForCheckpoint
     THEN /\ pendingResponses' = Append(pendingResponses, i)
          /\ inflight' = [inflight EXCEPT ![i] = Run("waiting", <<>>, "none")]
     ELSE /\ inflight' = [inflight EXCEPT ![i] = Run("fallthrough", <<>>, "undefined")]
          /\ UNCHANGED pendingResponses
  /\ uncaught' = "none"
  /\ UNCHANGED << waitForCheckpoint, discarded, microtasks, handled, capture, random, arrays >>

\* requestHandler({ request }) is called for the next request of the client:
\* it builds capturedRequest and either awaits the text of the body or goes
\* on to record the request.
RequestHandler(i, r) ==
  /\ pc = "idle"
  /\ microtasks = <<>>
  /\ inflight[i].stage = "unsent"
  /\ \A j \in 1..(i - 1) : inflight[j].stage # "unsent"
  /\ IF NeedsRead(r)
     THEN /\ inflight' = [inflight EXCEPT ![i] = Run("reading", <<r>>, "none")]
          /\ lastOp' = Step("request", "client", Len(currentBatch), TimeLeft(timeoutId, timers))
          /\ uncaught' = "none"
          /\ UNCHANGED << currentBatch, autoCheckpointOptions, timeoutId, timers, pc,
                          sortedRequests, observed, delivered, sinceCheckpoint,
                          manualCheckpoints, idleFor >>
          /\ UNCHANGED << waitForCheckpoint, discarded, pendingResponses, microtasks, batchIds,
                          handled, capture, random, arrays >>
     ELSE Record(i, Bare(r))

\* The await of the text that lets a rejection leave requestHandler: the
\* request is not recorded and the adapter fails.
TextReadPropagating(i) ==
  /\ pc = "idle"
  /\ microtasks = <<>>
  /\ inflight[i].stage = "reading"
  /\ LET r == inflight[i].request[1]
     IN  IF r.readable
         THEN Record(i, WithBody(Bare(r), r.body[1]))
         ELSE /\ inflight' = [inflight EXCEPT ![i] = Run("fallthrough", <<>>, "error")]
              /\ lastOp' = Step("text", "host", Len(currentBatch), TimeLeft(timeoutId, timers))
              /\ uncaught' = "none"
              /\ UNCHANGED << currentBatch, autoCheckpointOptions, timeoutId, timers, pc,
                              sortedRequests, observed, delivered, sinceCheckpoint,
                              manualCheckpoints, idleFor >>
              /\ UNCHANGED << waitForCheckpoint, discarded, pendingResponses, microtasks, batchIds,
                              handled, capture, random, arrays >>

\* await request.clone().text() settles: fulfilled, the text becomes the body
\* of capturedRequest; rejected, the catch ignores it. Either way the request
\* is recorded next.
TextRead(i) ==
  /\ pc = "idle"
  /\ microtasks = <<>>
  /\ inflight[i].stage = "reading"
  /\ LET r == inflight[i].request[1]
     IN  Record(i, IF r.readable THEN WithBody(Bare(r), r.body[1]) ELSE Bare(r))

\* The user calls the checkpoint function.
UserCheckpoint ==
  /\ microtasks = <<>>
  /\ ManualCheckpoint
  /\ AfterCheckpoint

\* The timer's callback calls checkpoint().
TimeoutCheckpoint ==
  /\ microtasks = <<>>
  /\ TimerFire
  /\ AfterCheckpoint

\* A return of the handler after which checkpoint() empties the batch and
\* resolves no promise.
HandlerReturnsWithoutRelease ==
  /\ HandlerReturn
  /\ batchIds' = <<>>
  /\ handled' = handled \cup Range(batchIds)
  /\ uncaught' = "none"
  /\ UNCHANGED << pendingResponses, microtasks, inflight >>
  /\ UNCHANGED << waitForCheckpoint, discarded, capture, random, arrays >>

\* The handler returns: currentBatch.length = 0, then the promises are
\* resolved.
HandlerReturns ==
  /\ HandlerReturn
  /\ Release
  /\ batchIds' = <<>>
  /\ handled' = handled \cup Range(batchIds)
  /\ uncaught' = "none"
  /\ UNCHANGED << waitForCheckpoint, discarded, capture, random, arrays >>

\* The handler throws inside a checkpoint() that catches the exception and
\* goes on as after a return.
HandlerThrowsCaught ==
  /\ HandlerThrow
  /\ Release
  /\ batchIds' = batchIds
  /\ handled' = handled \cup Range(batchIds)
  /\ uncaught' = "none"
  /\ UNCHANGED << waitForCheckpoint, discarded, capture, random, arrays >>

\* The handler throws: nothing in checkpoint() catches, so the exception
\* leaves it before the batch is emptied and before the promises are
\* resolved, and reaches whoever called checkpoint(): the user, or the host
\* that ran the timer's callback.
HandlerThrows ==
  /\ HandlerThrow
  /\ handled' = handled \cup Range(batchIds)
  /\ uncaught' = lastOp.by
  /\ UNCHANGED << waitForCheckpoint, discarded, pendingResponses, inflight, microtasks, batchIds,
                  capture, random, arrays >>

\* The continuation of a resolved adapter runs: return undefined.
Fallthrough ==
  /\ pc = "idle"
  /\ microtasks # <<>>
  /\ inflight' = [inflight EXCEPT ![Head(microtasks)] = Run("fallthrough", <<>>, "undefined")]
  /\ microtasks' = Tail(microtasks)
  /\ lastOp' = Step("fallthrough", "host", Len(currentBatch), TimeLeft(timeoutId, timers))
  /\ uncaught' = "none"
  /\ UNCHANGED << currentBatch, autoCheckpointOptions, timeoutId, timers, pc,
                  sortedRequests, observed, delivered, sinceCheckpoint,
                  manualCheckpoints, idleFor >>
  /\ UNCHANGED << waitForCheckpoint, discarded, pendingResponses, batchIds, handled, capture, random, arrays >>

\* One tick of time passes; the microtasks have run by then.
Wait ==
  /\ microtasks = <<>>
  /\ Tick
  /\ uncaught' = "none"
  /\ UNCHANGED << waitForCheckpoint, discarded, pendingResponses, inflight, microtasks, batchIds,
                  handled, capture, random, arrays >>

HandlerNext ==
  \/ \E i \in RequestIds, r \in Intercepted : RequestHandler(i, r)
  \/ \E i \in RequestIds : TextRead(i)
  \/ UserCheckpoint
  \/ TimeoutCheckpoint
  \/ HandlerReturns
  \/ HandlerThrows
  \/ Fallthrough
  \/ Wait

HandlerSpec == NewHandler /\ [][HandlerNext]_vars

\* options: { timeoutMs, waitForCheckpoint: true }
NewGatedHandler == NewHandler /\ waitForCheckpoint

\* ------------------------------------------------------------- reset()

\* reset(): the batch is dropped without a call of the handler and the pending
\* timer is cancelled; the adapters that wait are left waiting.
Reset ==
  /\ pc = "idle"
  /\ microtasks = <<>>
  /\ currentBatch' = <<>>
  /\ LET c == ClearAutoCheckpointTimer(timeoutId, timers)
     IN  timeoutId' = c.timeoutId /\ timers' = c.timers
  /\ batchIds' = <<>>
  /\ discarded' = discarded \cup Range(batchIds)
  /\ lastOp' = Step("reset", "user", Len(currentBatch), TimeLeft(timeoutId, timers))
  /\ uncaught' = "none"
  /\ UNCHANGED << autoCheckpointOptions, pc, sortedRequests, observed, delivered,
                  sinceCheckpoint, manualCheckpoints, idleFor >>
  /\ UNCHANGED << waitForCheckpoint, pendingResponses, inflight, microtasks, handled,
                  capture, random, arrays >>

\* The gated handler with reset() among its operations.
ResetNext ==
  \/ \E i \in RequestIds, r \in Intercepted : RequestHandler(i, r)
  \/ \E i \in RequestIds : TextRead(i)
  \/ UserCheckpoint
  \/ TimeoutCheckpoint
  \/ HandlerReturns
  \/ HandlerThrows
  \/ Fallthrough
  \/ Wait
  \/ Reset

ResetSpec == NewGatedHandler /\ [][ResetNext]_vars

\* ---------------------------------------------- the gate left to the timer

\* The gated handler with timeoutMs, a handler that returns, and a user who
\* never calls checkpoint(): the timer alone opens the gate.
TimerOnlyNext ==
  \/ \E i \in RequestIds, r \in Intercepted : RequestHandler(i, r)
  \/ \E i \in RequestIds : TextRead(i)
  \/ TimeoutCheckpoint
  \/ HandlerReturns
  \/ Fallthrough
  \/ Wait

\* The host: time passes, a due timer runs its callback, a settled promise
\* runs its continuation; and the handler, once called, returns.
HostIsFair ==
  /\ WF_vars(Wait)
  /\ WF_vars(TimeoutCheckpoint)
  /\ WF_vars(HandlerReturns)
  /\ WF_vars(Fallthrough)
  /\ WF_vars(\E i \in RequestIds : TextRead(i))

TimerOnlySpec == NewGatedHandler /\ [][TimerOnlyNext]_vars /\ HostIsFair

\* ------------------------------------------------- a sequential client

\* const response = await fetch(...) in a loop: the client sends a request
\* only when every earlier one has been answered, which takes the adapter of
\* that request to have fallen through.
SequentialRequest(i, r) ==
  /\ \A j \in 1..(i - 1) : inflight[j].stage = "fallthrough"
  /\ RequestHandler(i, r)

\* The client sends its requests in sequence and nobody calls checkpoint().
SequentialNext ==
  \/ \E i \in RequestIds, r \in Intercepted : SequentialRequest(i, r)
  \/ \E i \in RequestIds : TextRead(i)
  \/ TimeoutCheckpoint
  \/ HandlerReturns
  \/ HandlerThrows
  \/ Fallthrough
  \/ Wait

SequentialSpec == NewGatedHandler /\ [][SequentialNext]_vars

\* ------------------------------------- one run of the adapter, any Request

\* The adapter is called with some Request.
NewCall ==
  /\ NewCapturer
  /\ autoCheckpointOptions = NoOptions
  /\ NoAdapter
  /\ incoming \in Request
  /\ capturedRequest = <<>>
  /\ adapterPc = "called"
  /\ NoRandom
  /\ NoArrays

\* const capturedRequest = { method, url }, then the test that decides
\* whether the body is read.
BuildCapturedRequest ==
  /\ adapterPc = "called"
  /\ capturedRequest' = <<Bare(incoming)>>
  /\ adapterPc' = IF NeedsRead(incoming) THEN "reading" ELSE "built"
  /\ UNCHANGED << capturer, adapter, random, arrays, incoming >>

\* await request.clone().text() fulfils: capturedRequest.body = body
TextFulfils ==
  /\ adapterPc = "reading"
  /\ incoming.readable
  /\ capturedRequest' = <<WithBody(capturedRequest[1], incoming.body[1])>>
  /\ adapterPc' = "built"
  /\ UNCHANGED << capturer, adapter, random, arrays, incoming >>

\* await request.clone().text() rejects: catch { }
TextRejects ==
  /\ adapterPc = "reading"
  /\ ~incoming.readable
  /\ adapterPc' = "built"
  /\ UNCHANGED << capturer, adapter, random, arrays, incoming, capturedRequest >>

\* capturer.addRequest(capturedRequest); return undefined
AddCapturedRequest ==
  /\ adapterPc = "built"
  /\ currentBatch' = Append(currentBatch, capturedRequest[1])
  /\ adapterPc' = "returned"
  /\ UNCHANGED << autoCheckpointOptions, timeoutId, timers, pc, sortedRequests,
                  observed, delivered, sinceCheckpoint, manualCheckpoints, idleFor,
                  lastOp, adapter, random, arrays, incoming, capturedRequest >>

CaptureNext ==
  \/ BuildCapturedRequest
  \/ TextFulfils
  \/ TextRejects
  \/ AddCapturedRequest

CaptureSpec == NewCall /\ [][CaptureNext]_vars

\* ------------------------------------------------------- two instances

\* Two handlers made by two calls of createRequestsCaptureHandler on one
\* host. In this specification each of currentBatch, autoCheckpointOptions,
\* waitForCheckpoint, timeoutId, pendingResponses and delivered holds one
\* value per instance; timers is the one timer table of the host and inflight
\* the runs of the adapters, whichever instance they belong to. checkpoint()
\* is taken as one step, from its call to the return or the throw of a
\* handler that does not call back into the library, and the continuation
\* of a released adapter, which returns undefined, is not followed.
Capturers == {"first", "second"}

NewPair ==
  /\ currentBatch = [k \in Capturers |-> <<>>]
  /\ autoCheckpointOptions \in [Capturers -> {NoOptions, WithTimeout}]
  /\ waitForCheckpoint \in [Capturers -> BOOLEAN]
  /\ \A k \in Capturers : waitForCheckpoint[k] => autoCheckpointOptions[k].configured
  /\ timeoutId = [k \in Capturers |-> 0]
  /\ timers = {}
  /\ pendingResponses = [k \in Capturers |-> <<>>]
  /\ delivered = [k \in Capturers |-> NoRequests]
  /\ inflight = [i \in RequestIds |-> Unsent]
  /\ lastOp = Step("new", "user", 0, -1)
  /\ pc = "idle"
  /\ sortedRequests = <<>>
  /\ observed = NoRequests
  /\ sinceCheckpoint = <<>>
  /\ manualCheckpoints = 0
  /\ idleFor = 0
  /\ microtasks = <<>>
  /\ batchIds = <<>>
  /\ handled = {}
  /\ uncaught = "none"
  /\ discarded = {}
  /\ NoCapture
  /\ NoRandom
  /\ NoArrays

\* What no step of the two instances changes.
PairFrame ==
  UNCHANGED << autoCheckpointOptions, waitForCheckpoint, pc, sortedRequests, observed,
               sinceCheckpoint, idleFor, microtasks, batchIds, handled, uncaught,
               discarded, capture, random, arrays >>

\* A requestHandler that pushes onto a batch all the instances share.
RequestHandlerOfShared(k, i, c) ==
  /\ inflight[i].stage = "unsent"
  /\ \A j \in 1..(i - 1) : inflight[j].stage # "unsent"
  /\ currentBatch' = [j \in Capturers |-> Append(currentBatch[j], c)]
  /\ LET s == StartAutoCheckpointTimer(autoCheckpointOptions[k], timeoutId[k], timers)
     IN  timeoutId' = [timeoutId EXCEPT ![k] = s.timeoutId] /\ timers' = s.timers
  /\ IF waitForCheckpoint[k]
     THEN /\ pendingResponses' = [pendingResponses EXCEPT ![k] = Append(@, i)]
          /\ inflight' = [inflight EXCEPT ![i] = Run("waiting", <<>>, "none")]
     ELSE /\ inflight' = [inflight EXCEPT ![i] = Run("fallthrough", <<>>, "undefined")]
          /\ UNCHANGED pendingResponses
  /\ lastOp' = Step("request", k, Len(currentBatch[k]), TimeLeft(timeoutId[k], timers))
  /\ UNCHANGED << delivered, manualCheckpoints >>
  /\ PairFrame

\* The requestHandler of instance k, once capturedRequest c is built for the
\* request i: currentBatch.push(c); startAutoCheckpointTimer(); then the
\* await at the gate, or return undefined.
RequestHandlerOf(k, i, c) ==
  /\ inflight[i].stage = "unsent"
  /\ \A j \in 1..(i - 1) : inflight[j].stage # "unsent"
  /\ currentBatch' = [currentBatch EXCEPT ![k] = Append(@, c)]
  /\ LET s == StartAutoCheckpointTimer(autoCheckpointOptions[k], timeoutId[k], timers)
     IN  timeoutId' = [timeoutId EXCEPT ![k] = s.timeoutId] /\ timers' = s.timers
  /\ IF waitForCheckpoint[k]
     THEN /\ pendingResponses' = [pendingResponses EXCEPT ![k] = Append(@, i)]
          /\ inflight' = [inflight EXCEPT ![i] = Run("waiting", <<>>, "none")]
     ELSE /\ inflight' = [inflight EXCEPT ![i] = Run("fallthrough", <<>>, "undefined")]
          /\ UNCHANGED pendingResponses
  /\ lastOp' = Step("request", k, Len(currentBatch[k]), TimeLeft(timeoutId[k], timers))
  /\ UNCHANGED << delivered, manualCheckpoints >>
  /\ PairFrame

\* checkpoint() of instance k, entered with the host's timer table tms: the
\* timer is cleared; with a batch, the handler of k gets the sorted copy; when
\* it returns, or was not called, the batch is emptied and the promises of
\* k are resolved; when it throws, neither happens.
CheckpointOf(k, tms, throws) ==
  /\ LET c == ClearAutoCheckpointTimer(timeoutId[k], tms)
     IN  timeoutId' = [timeoutId EXCEPT ![k] = c.timeoutId] /\ timers' = c.timers
  /\ delivered' = IF Len(currentBatch[k]) > 0
                  THEN [delivered EXCEPT
                          ![k] = Plus(@, CountsOf(SortRequests(currentBatch[k])))]
                  ELSE delivered
  /\ IF Len(currentBatch[k]) > 0 /\ throws
     THEN UNCHANGED << currentBatch, pendingResponses, inflight >>
     ELSE /\ currentBatch' = [currentBatch EXCEPT ![k] = <<>>]
          /\ pendingResponses' = [pendingResponses EXCEPT ![k] = <<>>]
          /\ inflight' = [i \in RequestIds |->
                            IF i \in Range(pendingResponses[k])
                            THEN [inflight[i] EXCEPT !.stage = "released"]
                            ELSE inflight[i]]
  /\ lastOp' = Step("checkpoint", k, Len(currentBatch[k]), TimeLeft(timeoutId[k], timers))
  /\ PairFrame

\* The user calls the checkpoint function of instance k.
UserCheckpointOf(k) ==
  /\ manualCheckpoints < MaxCheckpoints
  /\ manualCheckpoints' = manualCheckpoints + 1
  /\ \E throws \in BOOLEAN : CheckpointOf(k, timers, throws)

\* The due timer of instance k runs its callback.
TimeoutCheckpointOf(k) ==
  \E t \in timers :
    /\ t.remaining = 0
    /\ t.id = timeoutId[k]
    /\ UNCHANGED manualCheckpoints
    /\ \E throws \in BOOLEAN : CheckpointOf(k, timers \ {t}, throws)

\* One tick of time passes on the host.
TickOfHost ==
  /\ \E t \in timers : t.remaining > 0
  /\ timers' = {[id |-> t.id, remaining |-> IF t.remaining > 0 THEN t.remaining - 1 ELSE 0]
                  : t \in timers}
  /\ lastOp' = Step("tick", "host", 0, -1)
  /\ UNCHANGED << currentBatch, timeoutId, pendingResponses, delivered, inflight,
                  manualCheckpoints >>
  /\ PairFrame

PairNext ==
  \/ \E k \in Capturers, i \in RequestIds, r \in Intercepted :
       RequestHandlerOf(k, i, Bare(r))
  \/ \E k \in Capturers : UserCheckpointOf(k)
  \/ \E k \in Capturers : TimeoutCheckpointOf(k)
  \/ TickOfHost

PairSpec == NewPair /\ [][PairNext]_vars

\* ------------------------------------------------------- SeededRandom

\* The generator of the test utilities (src/src/test-utils/SeededRandom.ts).
\* seed is a JavaScript number; the model follows the integers below 2^32 in
\* magnitude, on which the arithmetic of next() is exact (no product reaches
\* 2^53), as a sign and a magnitude of two limbs, hi * Limb + lo.

\* 2^16; Math.pow(2, 32) is Limb * Limb.
Limb == 65536

\* The multiplier and the increment of next().
Multiplier == 1664525
Increment == 1013904223

\* The value undefined, which no array of the model holds.
Undefined == "undefined"

\* The number n, |n| < 2^31, as a seed.
Number(n) ==
  LET m == IF n < 0 THEN 0 - n ELSE n
  IN  [neg |-> n < 0, hi |-> m \div Limb, lo |-> m % Limb]

\* (m * Multiplier) % 2^32 for the magnitude m = hi * Limb + lo.
TimesMultiplier(hi, lo) ==
  LET al == Multiplier % Limb
      ah == Multiplier \div Limb
      p0 == lo * al
  IN  [hi |-> ((p0 \div Limb) + hi * al + lo * ah) % Limb, lo |-> p0 % Limb]

\* The largest magnitude m with Increment - m * Multiplier >= 0.
LastPositive == Increment \div Multiplier

\* this.seed = (this.seed * 1664525 + 1013904223) % Math.pow(2, 32): the
\* remainder of JavaScript has the sign of the dividend.
NextSeed(s) ==
  LET p  == TimesMultiplier(s.hi, s.lo)
      cl == Increment % Limb
      ch == Increment \div Limb
  IN  IF ~s.neg
      THEN LET t0 == p.lo + cl
           IN  [neg |-> FALSE, hi |-> (p.hi + ch + (t0 \div Limb)) % Limb, lo |-> t0 % Limb]
      ELSE IF s.hi = 0 /\ s.lo <= LastPositive
      THEN Number(Increment - s.lo * Multiplier)
      ELSE \* the dividend is negative: -((m * Multiplier - Increment) % 2^32)
           LET t0 == p.lo - cl
               b  == IF t0 < 0 THEN 1 ELSE 0
               hi == (p.hi - ch - b + 2 * Limb) % Limb
               lo == (t0 + Limb) % Limb
           IN  [neg |-> hi # 0 \/ lo # 0, hi |-> hi, lo |-> lo]

\* Math.floor(v * n) for v = s / 2^32, the value next() returned, and an
\* integer n in 1 .. 2^15.
FloorTimes(s, n) ==
  LET low  == s.lo * n
      mid  == s.hi * n + (low \div Limb)
      q    == mid \div Limb
      rest == (mid % Limb # 0) \/ (low % Limb # 0)
  IN  IF ~s.neg THEN q
      ELSE 0 - (q + (IF rest THEN 1 ELSE 0))

\* nextInt(min, max) on the seed s: the seed after the call and the value
\* Math.floor(this.next() * (max - min + 1)) + min.
NextInt(s, min, max) ==
  LET t == NextSeed(s)
  IN  [seed |-> t, value |-> FloorTimes(t, max - min + 1) + min]

\* shuffled[j] of an array with elements 0 .. Len - 1 and the properties
\* props that assignments outside these have created.
Get(a, props, j) ==
  IF j \in 0..(Len(a) - 1) THEN a[j + 1]
  ELSE IF j \in DOMAIN props THEN props[j]
  ELSE Undefined

RECURSIVE ShuffleFrom(_, _, _, _)
\* The loop of shuffle at index i: j = this.nextInt(0, i), then
\* [shuffled[i], shuffled[j]] = [shuffled[j], shuffled[i]].
ShuffleFrom(s, a, props, i) ==
  IF i <= 0 THEN [seed |-> s, value |-> a]
  ELSE LET n  == NextInt(s, 0, i)
           j  == n.value
           ai == Get(a, props, i)
           aj == Get(a, props, j)
           b  == [a EXCEPT ![i + 1] = aj]
       IN  IF j \in 0..(Len(a) - 1)
           THEN ShuffleFrom(n.seed, [b EXCEPT ![j + 1] = ai], props, i - 1)
           ELSE ShuffleFrom(n.seed, b,
                            [k \in DOMAIN props \cup {j} |-> IF k = j THEN ai ELSE props[k]],
                            i - 1)

\* shuffle(array): const shuffled = [...array], the loop from the last
\* index down to 1, return shuffled.
Shuffle(s, array) == ShuffleFrom(s, array, <<>>, Len(array) - 1)

\* The seeds the generators of the model are constructed with.
Seeds == {Number(n) : n \in {-1000, -1, 0, 1, 42, 12345, 54321}}

\* The ranges nextInt is called with, min <= max.
Ranges == { <<0, 1>>, <<0, 9>>, <<1, 10>>, <<5, 15>>, <<7, 7>> }

\* The arrays shuffle is called with.
Arrays == { <<>>, <<"a">>, <<"a", "b">>, <<"a", "b", "c">>, <<"a", "b", "a">> }

\* new SeededRandom(seed)
NewSeededRandom ==
  /\ seed \in Seeds
  /\ calls = 0
  /\ called = [op |-> "none", min |-> 0, max |-> 0, array |-> <<>>]
  /\ returned = <<>>
  /\ NewCapturer
  /\ autoCheckpointOptions = NoOptions
  /\ NoAdapter
  /\ NoCapture
  /\ NoArrays

\* next(): the seed advances and the value seed / 2^32 is returned; returned
\* holds its numerator.
CallNext ==
  /\ calls < MaxCalls
  /\ seed' = NextSeed(seed)
  /\ returned' = seed'
  /\ called' = [op |-> "next", min |-> 0, max |-> 0, array |-> <<>>]
  /\ calls' = calls + 1
  /\ UNCHANGED << capturer, adapter, capture, arrays >>

\* nextInt(min, max)
CallNextInt(min, max) ==
  /\ calls < MaxCalls
  /\ LET n == NextInt(seed, min, max)
     IN  seed' = n.seed /\ returned' = n.value
  /\ called' = [op |-> "nextInt", min |-> min, max |-> max, array |-> <<>>]
  /\ calls' = calls + 1
  /\ UNCHANGED << capturer, adapter, capture, arrays >>

\* shuffle(array)
CallShuffle(array) ==
  /\ calls < MaxCalls
  /\ LET n == Shuffle(seed, array)
     IN  seed' = n.seed /\ returned' = n.value
  /\ called' = [op |-> "shuffle", min |-> 0, max |-> 0, array |-> array]
  /\ calls' = calls + 1
  /\ UNCHANGED << capturer, adapter, capture, arrays >>

RandomNext ==
  \/ CallNext
  \/ \E r \in Ranges : CallNextInt(r[1], r[2])
  \/ \E array \in Arrays : CallShuffle(array)

RandomSpec == NewSeededRandom /\ [][RandomNext]_vars

\* ------------------------------------------------- arrays by reference

\* checkpoint() of createRequestsCaptureHandler with its arrays followed by
\* reference. heap holds the arrays; in this specification currentBatch is
\* the reference of the batch array (const currentBatch, one array for the
\* life of the handler) and sortedRequests the reference of the array the
\* running handler was given, 0 when none. The handler keeps every array it
\* is given and may change it; kept lists, for each array given, its
\* reference and what the handler has left in it.
NewClosure ==
  /\ heap = << <<>> >>
  /\ kept = <<>>
  /\ currentBatch = 1
  /\ sortedRequests = 0
  /\ autoCheckpointOptions = NoOptions
  /\ timeoutId = 0
  /\ timers = {}
  /\ pc = "idle"
  /\ observed = NoRequests
  /\ delivered = NoRequests
  /\ sinceCheckpoint = <<>>
  /\ manualCheckpoints = 0
  /\ idleFor = 0
  /\ lastOp = Step("new", "user", 0, -1)
  /\ NoAdapter
  /\ NoCapture
  /\ NoRandom

\* What no step of this specification changes.
ClosureFrame ==
  UNCHANGED << currentBatch, autoCheckpointOptions, timeoutId, timers, delivered,
               sinceCheckpoint, idleFor, adapter, capture, random >>

\* currentBatch.push(capturedRequest)
Push(c) ==
  /\ pc = "idle"
  /\ Total(observed) < MaxObs
  /\ heap' = [heap EXCEPT ![currentBatch] = Append(@, c)]
  /\ observed' = Plus(observed, CountsOf(<<c>>))
  /\ lastOp' = Step("addRequest", "user", Len(heap[currentBatch]), -1)
  /\ UNCHANGED << kept, pc, sortedRequests, manualCheckpoints >>
  /\ ClosureFrame

\* checkpoint() that sorts the batch array itself and hands it to the
\* handler.
CheckpointInPlace ==
  /\ pc = "idle"
  /\ manualCheckpoints < MaxCheckpoints
  /\ manualCheckpoints' = manualCheckpoints + 1
  /\ IF Len(heap[currentBatch]) > 0
     THEN /\ heap' = [heap EXCEPT ![currentBatch] = SortRequests(@)]
          /\ sortedRequests' = currentBatch
          /\ kept' = Append(kept, [ref |-> currentBatch, content |-> heap'[currentBatch]])
          /\ pc' = "handler"
     ELSE UNCHANGED << heap, kept, pc, sortedRequests >>
  /\ lastOp' = Step("checkpoint", "manual", Len(heap[currentBatch]), -1)
  /\ UNCHANGED observed
  /\ ClosureFrame

\* checkpoint() up to the call of the handler: with a batch,
\* const sortedRequests = [...currentBatch].sort(...) is a new array, and
\* handler(sortedRequests) is called; without one, currentBatch.length = 0
\* ends it.
CheckpointByReference ==
  /\ pc = "idle"
  /\ manualCheckpoints < MaxCheckpoints
  /\ manualCheckpoints' = manualCheckpoints + 1
  /\ IF Len(heap[currentBatch]) > 0
     THEN /\ heap' = Append(heap, SortRequests(heap[currentBatch]))
          /\ sortedRequests' = Len(heap) + 1
          /\ kept' = Append(kept, [ref |-> Len(heap) + 1, content |-> heap'[Len(heap) + 1]])
          /\ pc' = "handler"
     ELSE UNCHANGED << heap, kept, pc, sortedRequests >>
  /\ lastOp' = Step("checkpoint", "manual", Len(heap[currentBatch]), -1)
  /\ UNCHANGED observed
  /\ ClosureFrame

\* The handler changes the array it was given: requests.pop(), or
\* requests.length = 0.
HandlerChanges(all) ==
  /\ pc = "handler"
  /\ Len(heap[sortedRequests]) > 0
  /\ LET new == IF all THEN <<>>
                ELSE SubSeq(heap[sortedRequests], 1, Len(heap[sortedRequests]) - 1)
     IN  /\ heap' = [heap EXCEPT ![sortedRequests] = new]
         /\ kept' = [kept EXCEPT ![Len(kept)].content = new]
  /\ lastOp' = Step("change", "handler", Len(heap[currentBatch]), -1)
  /\ UNCHANGED << pc, sortedRequests, observed, manualCheckpoints >>
  /\ ClosureFrame

\* The handler returns: currentBatch.length = 0 empties the batch array in
\* place.
ReturnByReference ==
  /\ pc = "handler"
  /\ heap' = [heap EXCEPT ![currentBatch] = <<>>]
  /\ pc' = "idle"
  /\ sortedRequests' = 0
  /\ lastOp' = Step("return", "manual", Len(heap[currentBatch]), -1)
  /\ UNCHANGED << kept, observed, manualCheckpoints >>
  /\ ClosureFrame

\* The handler throws: checkpoint() is left at the call.
ThrowByReference ==
  /\ pc = "handler"
  /\ pc' = "idle"
  /\ sortedRequests' = 0
  /\ lastOp' = Step("throw", "manual", Len(heap[currentBatch]), -1)
  /\ UNCHANGED << heap, kept, observed, manualCheckpoints >>
  /\ ClosureFrame

ClosureNext ==
  \/ \E c \in CapturedRequest : Push(c)
  \/ CheckpointByReference
  \/ \E all \in BOOLEAN : HandlerChanges(all)
  \/ ReturnByReference
  \/ ThrowByReference

ClosureSpec == NewClosure /\ [][ClosureNext]_vars

\* ---------------------------------------------------------------- the claims

\* The sequences that hold the elements of s in some order.
Reorderings(s) ==
  { [i \in 1..Len(s) |-> s[f[i]]] : f \in Permutations(1..Len(s)) }

\* Requests of s with the same url and method have the same body.
BodiesAgree(s) ==
  \A i, j \in 1..Len(s) :
    (s[i].url = s[j].url /\ s[i].method = s[j].method) => s[i].body = s[j].body

\* The order of strings the comparator sorts by.
StringOrder ==
  [s \in {GET, POST, UrlA, UrlB}, t \in {GET, POST, UrlA, UrlB} |-> LocaleCompare(s, t)]

\* s comes before t in that order.
StringLess(s, t) == StringOrder[s, t] < 0

\* C1: the sequence checkpoint() hands to the handler is the one it would hand
\* over for any other arrival order of the same requests, provided requests
\* with the same url and method have the same body.
C1_OrderIndependent ==
  (pc = "handler" /\ BodiesAgree(currentBatch)) =>
    \A other \in Reorderings(currentBatch) : SortRequests(other) = sortedRequests

\* A batch of three requests, not all alike, that arrived in another order
\* than the sorted one is in the hands of the handler.
C1_Witness ==
  /\ pc = "handler"
  /\ Len(currentBatch) = 3
  /\ BodiesAgree(currentBatch)
  /\ sortedRequests # currentBatch
  /\ \E other \in Reorderings(currentBatch) :
       other # currentBatch /\ other # sortedRequests

\* C2: every sequence handed to the handler is non-decreasing by url, and by
\* method among equal urls.
C2_Sorted ==
  pc = "handler" =>
    /\ sortedRequests # <<>>
    /\ \A i \in 1..(Len(sortedRequests) - 1) :
         \/ StringLess(sortedRequests[i].url, sortedRequests[i + 1].url)
         \/ /\ sortedRequests[i].url = sortedRequests[i + 1].url
            /\ \/ StringLess(sortedRequests[i].method, sortedRequests[i + 1].method)
               \/ sortedRequests[i].method = sortedRequests[i + 1].method

\* The handler holds a sequence of three whose first two share the url and
\* differ in the method and whose last has a greater url, after they arrived
\* in another order.
C2_Witness ==
  /\ pc = "handler"
  /\ Len(sortedRequests) = 3
  /\ sortedRequests # currentBatch
  /\ sortedRequests[1].url = sortedRequests[2].url
  /\ sortedRequests[1].method # sortedRequests[2].method
  /\ sortedRequests[2].url # sortedRequests[3].url

\* C3: a checkpoint that follows N >= 1 observations made since the previous
\* checkpoint invokes the handler, and with a permutation of exactly those N
\* requests.
C3_ExactlyTheObserved ==
  /\ (lastOp.op = "checkpoint" /\ sinceCheckpoint # <<>>) => pc = "handler"
  /\ (pc = "handler" /\ sinceCheckpoint # <<>>) =>
       CountsOf(sortedRequests) = CountsOf(sinceCheckpoint)

\* C4: between operations every observed request is in exactly one place: it
\* was delivered once, or it is still in the current batch.
C4_EachRequestOnce ==
  /\ \A r \in CapturedRequest : delivered[r] <= observed[r]
  /\ pc = "idle" =>
       \A r \in CapturedRequest :
         observed[r] = delivered[r] + CountIn(currentBatch, r)

C6_OnlyCheckpointCalls ==
  [][/\ (delivered' # delivered \/ (pc = "idle" /\ pc' = "handler")) =>
          /\ lastOp'.op = "checkpoint"
          /\ pc = "idle" /\ pc' = "handler"
          /\ observed' = observed
          /\ delivered' = Plus(delivered, CountsOf(currentBatch))
     /\ observed' # observed =>
          (delivered' = delivered /\ pc' = "idle" /\ sortedRequests' = <<>>)
    ]_vars

\* Two requests were observed, time has passed, and none has reached the handler.
C6_Witness ==
  /\ Len(currentBatch) = 2
  /\ Total(observed) = 2
  /\ Total(delivered) = 0
  /\ lastOp.op = "tick"
  /\ pc = "idle"

\* C7: with timeoutMs configured, as long as no checkpoint has followed the
\* last observation exactly one timer is pending, due timeoutMs after that
\* observation; a checkpoint fired by the timer therefore finds timeoutMs
\* elapsed, passes the whole batch to the handler and leaves no timer behind.
C7_FiresAfterTimeout ==
  /\ (autoCheckpointOptions.configured /\ pc = "idle" /\ sinceCheckpoint # <<>>) =>
       timers = {[id |-> timeoutId, remaining |-> TimeoutTicks - idleFor]}
  /\ (pc = "handler" /\ lastOp.by = "timer") =>
       /\ idleFor >= TimeoutTicks
       /\ CountsOf(sortedRequests) = CountsOf(currentBatch)
       /\ timers = {}
       /\ timeoutId = 0

\* The timer has fired on a batch of one request after timeoutMs of quiet.
C7_Witness ==
  /\ pc = "handler"
  /\ lastOp.by = "timer"
  /\ Len(sortedRequests) = 1
  /\ idleFor = TimeoutTicks
  /\ manualCheckpoints = 0

\* C8: an observation made while a timer is pending replaces that timer by
\* one that is due a full timeoutMs later and invokes nothing; the checkpoint
\* the timer fires carries every observation made since the last checkpoint.
C8_RearmSupersedes ==
  /\ [][(observed' # observed /\ timers # {}) =>
          /\ timers' = {[id |-> timeoutId', remaining |-> TimeoutTicks]}
          /\ delivered' = delivered
          /\ pc' = "idle"]_vars
  /\ []((pc = "handler" /\ lastOp.by = "timer") =>
          \A r \in CapturedRequest :
            CountIn(sinceCheckpoint, r) <= CountIn(sortedRequests, r))

\* A second observation arrived when the pending timer had run part of its
\* time, and the only timer now pending has the full timeoutMs to go.
C8_Witness ==
  /\ lastOp.op = "addRequest"
  /\ lastOp.left >= 1
  /\ lastOp.left < TimeoutTicks
  /\ Len(currentBatch) = 2
  /\ timers = {[id |-> timeoutId, remaining |-> TimeoutTicks]}

\* C9: a manual checkpoint leaves no timer pending, and an observation made
\* when no timer is pending arms one that is due a full timeoutMs later.
C9_ManualCancels ==
  /\ [][manualCheckpoints' # manualCheckpoints =>
          (timers' = {} /\ timeoutId' = 0)]_vars
  /\ [][(observed' # observed /\ timers = {} /\ autoCheckpointOptions.configured) =>
          timers' = {[id |-> timeoutId', remaining |-> TimeoutTicks]}]_vars

\* A manual checkpoint has just run while a timer was pending and not yet
\* due, and no timer is pending any more.
C9_Witness ==
  /\ lastOp.op = "checkpoint"
  /\ lastOp.by = "manual"
  /\ lastOp.left >= 1
  /\ timers = {}
  /\ timeoutId = 0

\* C10: a Capturer constructed without options never has a timer, and no
\* checkpoint of it is called by a timer.
C10_NoOptionsNoTimer ==
  ~autoCheckpointOptions.configured =>
    (timers = {} /\ timeoutId = 0 /\ lastOp.by # "timer")

\* Without options a request was observed, time passed up to the cap of the
\* clock, and the request is still unprocessed.
C10_Witness ==
  /\ ~autoCheckpointOptions.configured
  /\ currentBatch # <<>>
  /\ idleFor = ClockCap
  /\ Total(delivered) = 0

\* C11: with waitForCheckpoint, the continuation of an adapter is made
\* runnable, and runs, only after the handler has been called with a batch
\* that holds the adapter's request and has left that call; none is made
\* runnable while the handler runs.
C11_ResumeAfterHandler ==
  waitForCheckpoint =>
    \A i \in RequestIds :
      /\ inflight[i].stage \in {"released", "fallthrough"} => i \in handled
      /\ inflight[i].stage = "released" => pc = "idle"

\* A waiting adapter has just fallen through, after the handler returned from
\* the batch that held its request.
C11_Witness ==
  /\ waitForCheckpoint
  /\ lastOp.op = "fallthrough"
  /\ \E i \in RequestIds : inflight[i].stage = "fallthrough" /\ i \in handled

\* C12: with waitForCheckpoint, once a checkpoint is over, be it manual or
\* fired by the timer, with a batch or without, no release callback is left
\* in the queue and no adapter is left waiting.
C12_CheckpointReleasesAll ==
  (waitForCheckpoint /\ pc = "idle" /\ lastOp.op \in {"checkpoint", "return", "throw"}) =>
    /\ pendingResponses = <<>>
    /\ \A i \in RequestIds : inflight[i].stage # "waiting"

\* C13: without waitForCheckpoint no release callback is ever queued, no
\* adapter ever waits for a checkpoint, and every request that has been
\* recorded has fallen through already, whether or not the handler has been
\* called with it.
C13_NoGateNoWaiting ==
  ~waitForCheckpoint =>
    /\ pendingResponses = <<>>
    /\ microtasks = <<>>
    /\ \A i \in RequestIds :
         /\ inflight[i].stage \notin {"waiting", "released"}
         /\ (i \in Range(batchIds) \/ i \in handled) => inflight[i].stage = "fallthrough"

\* Without waitForCheckpoint and with a timer pending, a request has fallen
\* through while it sits in the batch and the handler has not been called
\* with anything yet.
C13_Witness ==
  /\ ~waitForCheckpoint
  /\ timers # {}
  /\ pc = "idle"
  /\ Total(delivered) = 0
  /\ \E i \in RequestIds :
       /\ inflight[i].stage = "fallthrough"
       /\ i \in Range(batchIds)
       /\ i \notin handled

\* C14: with waitForCheckpoint, when the user calls checkpoint() while the
\* timer is pending and not yet due, the handler is called with the batch
\* and, once that call is over, the adapters that waited are released in the
\* order they came, no timer is pending and nothing of the batch is left for
\* a later call of the handler: what a checkpoint fired by the timer does.
C14_ManualLikeTimer ==
  [][ ( /\ waitForCheckpoint
        /\ pc = "handler"
        /\ lastOp.op = "checkpoint"
        /\ lastOp.by = "manual"
        /\ lastOp.left >= 1
        /\ pc' = "idle" )
      => ( /\ pendingResponses' = <<>>
           /\ microtasks' = pendingResponses
           /\ timers' = {}
           /\ currentBatch' = <<>> ) ]_vars

\* The requests the handler has been called with so far, all calls together.
HandlerCalls == Total(delivered)

\* C15: with waitForCheckpoint and the timer, and a client that sends a
\* request only after the previous one was answered, every call of the
\* handler has a batch of exactly one request, the handler is called once
\* per request, a request falls through only after the handler was called
\* with it, and the handler is called with a request only after every
\* earlier request has fallen through.
C15_OneCheckpointPerRequest ==
  /\ pc = "handler" => Len(sortedRequests) = 1
  /\ Len(currentBatch) <= 1
  /\ HandlerCalls = Cardinality(handled) + (IF pc = "handler" THEN 1 ELSE 0)
  /\ \A r \in CapturedRequest : delivered[r] <= observed[r]
  /\ \A i \in RequestIds :
       /\ inflight[i].stage = "fallthrough" => i \in handled
       /\ \A j \in 1..(i - 1) :
            (i \in handled \/ i \in Range(batchIds)) => inflight[j].stage = "fallthrough"

\* Every request of the client has been answered, each after a call of the
\* handler of its own.
C15_Witness ==
  /\ \A i \in RequestIds : inflight[i].stage = "fallthrough"
  /\ HandlerCalls = MaxRequests
  /\ manualCheckpoints = 0

\* C16: when the handler throws during checkpoint(), the batch is emptied
\* and the waiting adapters are released all the same: once the failing
\* checkpoint is over the batch is empty and the queue of release callbacks
\* is empty.
C16_ThrowStillClears ==
  lastOp.op = "throw" =>
    /\ currentBatch = <<>>
    /\ pendingResponses = <<>>
    /\ \A i \in RequestIds : inflight[i].stage # "waiting"

\* C17: a batch whose handler call threw is never handed to the handler
\* again: over a run no request is passed to the handler more often than it
\* was observed.
C17_NoRetry ==
  \A r \in CapturedRequest : delivered[r] <= observed[r]

\* C18: an exception of the handler is not caught on the way: the step in
\* which the handler throws hands the exception to whoever called
\* checkpoint(), the user for a manual checkpoint and the host for the
\* timer's callback, and no other step raises anything.
C18_ExceptionPropagates ==
  /\ lastOp.op = "throw" => (uncaught = lastOp.by /\ uncaught \in {"manual", "timer"})
  /\ lastOp.op # "throw" => uncaught = "none"

\* The handler threw in a checkpoint the timer fired, and the exception has
\* reached the host.
C18_Witness ==
  /\ lastOp.op = "throw"
  /\ lastOp.by = "timer"
  /\ uncaught = "timer"

\* The runs of the adapter that have got past the recording of their request.
Recorded == {i \in RequestIds : inflight[i].stage \in {"waiting", "released", "fallthrough"}}

\* C19: the adapter never answers a request. A run that has ended has
\* returned undefined, no run has any other result, and the runs that got as
\* far as recording have recorded one observation each: the observations are
\* as many as those runs, and the batch holds each of its requests once.
C19_AlwaysFallsThrough ==
  /\ \A i \in RequestIds :
       /\ inflight[i].result \in {"none", "undefined"}
       /\ inflight[i].result = "undefined" <=> inflight[i].stage = "fallthrough"
  /\ Total(observed) = Cardinality(Recorded)
  /\ Len(batchIds) = Len(currentBatch)
  /\ Cardinality(Range(batchIds)) = Len(batchIds)
  /\ Range(batchIds) \subseteq Recorded

\* With waitForCheckpoint, a POST whose body could not be read has been
\* recorded without a body, released by a checkpoint and has returned
\* undefined; a request without a body has done so too.
C19_Witness ==
  /\ waitForCheckpoint
  /\ \A i \in RequestIds : inflight[i].result = "undefined"
  /\ observed[[method |-> POST, url |-> UrlA, body |-> <<>>]] = 1
  /\ observed[[method |-> GET, url |-> UrlB, body |-> <<>>]] = 1

\* C20: the request the adapter records has the method and the url of the
\* Request it was given; it has a body exactly when the method is POST, PUT
\* or PATCH, the Request carries a body and reading it succeeded, and the
\* body is then the text that was read; a read that fails does not stop the
\* run, which goes on to record the request without a body.
C20_BodyExactlyWhenRead ==
  /\ adapterPc = "returned" =>
       /\ Len(currentBatch) = 1
       /\ currentBatch[1].method = incoming.method
       /\ currentBatch[1].url = incoming.url
       /\ currentBatch[1].body # <<>> <=>
            /\ incoming.method \in {POST, PUT, PATCH}
            /\ incoming.body # <<>>
            /\ incoming.readable
       /\ currentBatch[1].body # <<>> => currentBatch[1].body = incoming.body
  /\ adapterPc # "returned" => ENABLED CaptureNext

\* A PUT whose body could not be read has been recorded without a body.
C20_Witness ==
  /\ adapterPc = "returned"
  /\ incoming.method = PUT
  /\ incoming.body = <<"x">>
  /\ ~incoming.readable
  /\ currentBatch = <<[method |-> PUT, url |-> incoming.url, body |-> <<>>]>>

\* C21: a call of checkpoint() that comes right after a checkpoint, with no
\* observation between the two, does nothing: the handler is not called,
\* the batch stays empty, no timer is pending and no adapter is released.
C21_SecondCheckpointNoOp ==
  [][ ( /\ pc = "idle"
        /\ lastOp.op \in {"checkpoint", "return", "throw"}
        /\ lastOp'.op = "checkpoint" )
      => ( /\ pc' = "idle"
           /\ delivered' = delivered
           /\ currentBatch = <<>>
           /\ currentBatch' = <<>>
           /\ timers' = {}
           /\ pendingResponses' = pendingResponses
           /\ microtasks' = microtasks ) ]_vars

C23_OneTimer ==
  /\ Cardinality(timers) <= 1
  /\ \A t \in timers : t.id = timeoutId /\ t.remaining \in 0..TimeoutTicks
  /\ timers # {} => (sinceCheckpoint # <<>> /\ pc = "idle")
  /\ (lastOp.op = "addRequest" /\ lastOp.left >= 0) =>
       timers = {[id |-> timeoutId, remaining |-> TimeoutTicks]}

\* After an automatic checkpoint, two observations came one right after the
\* other: the second found the timer of the first with all its time left, and
\* one timer is pending.
C23_Witness ==
  /\ lastOp.op = "addRequest"
  /\ lastOp.left = TimeoutTicks
  /\ Cardinality(timers) = 1
  /\ Total(delivered) >= 1
  /\ manualCheckpoints = 0

\* The requests of s that have the url and the method of r, in the order of s.
WithKeyOf(s, r) ==
  LET SameKey(x) == x.url = r.url /\ x.method = r.method
  IN  SelectSeq(s, SameKey)

\* C25: the sort is stable: the requests of a batch that have the same url
\* and the same method reach the handler in the order they were observed in.
C25_StableSort ==
  pc = "handler" =>
    \A r \in CapturedRequest :
      WithKeyOf(sortedRequests, r) = WithKeyOf(currentBatch, r)

\* The handler holds a batch of three that the sort has reordered, in which
\* the POST of /a with a body was observed before the POST of /a without one.
C25_Witness ==
  /\ pc = "handler"
  /\ Len(currentBatch) = 3
  /\ sortedRequests # currentBatch
  /\ WithKeyOf(currentBatch, [method |-> POST, url |-> UrlA, body |-> <<>>]) =
       << [method |-> POST, url |-> UrlA, body |-> <<"x">>],
          [method |-> POST, url |-> UrlA, body |-> <<>>] >>

C24_Independent ==
  [][\A k \in Capturers :
       lastOp'.by \in Capturers \ {k} =>
         /\ currentBatch'[k] = currentBatch[k]
         /\ timeoutId'[k] = timeoutId[k]
         /\ {t \in timers' : t.id = timeoutId[k]} = {t \in timers : t.id = timeoutId[k]}
         /\ pendingResponses'[k] = pendingResponses[k]
         /\ \A i \in Range(pendingResponses[k]) : inflight'[i] = inflight[i]
         /\ delivered'[k] = delivered[k]]_vars

\* The first instance has just delivered its batch of one and released its
\* gate, while the second still holds its own request, its pending timer and
\* the adapter that waits at its gate, its handler never called.
C24_Witness ==
  /\ lastOp.op = "checkpoint"
  /\ lastOp.by = "first"
  /\ lastOp.found = 1
  /\ Total(delivered["first"]) = 1
  /\ currentBatch["first"] = <<>>
  /\ Len(currentBatch["second"]) = 1
  /\ Len(pendingResponses["second"]) = 1
  /\ \E t \in timers : t.id = timeoutId["second"]
  /\ Total(delivered["second"]) = 0

\* C28: whatever integer the generator was constructed with and however
\* many calls were made before, a call of next() leaves a seed that is an
\* integer of 0 .. 2^32 - 1 and returns seed / 2^32, a value that is at
\* least 0 and less than 1.
C28_NextInUnitInterval ==
  called.op = "next" =>
    /\ returned = seed
    /\ ~seed.neg
    /\ seed.hi \in 0..(Limb - 1)
    /\ seed.lo \in 0..(Limb - 1)

\* C29: nextInt(min, max) with min <= max returns an integer of min .. max,
\* and so nextInt(k, k) returns k.
C29_NextIntInRange ==
  called.op = "nextInt" =>
    /\ returned \in called.min..called.max
    /\ called.min = called.max => returned = called.min

\* C30: shuffle(array) returns an array of the length of its argument that
\* holds the same elements as often; an array of at most one element comes
\* back with the same content.
C30_ShuffleIsPermutation ==
  called.op = "shuffle" =>
    /\ Len(returned) = Len(called.array)
    /\ \A e \in Range(called.array) \cup Range(returned) :
         Cardinality({i \in 1..Len(returned) : returned[i] = e}) =
           Cardinality({i \in 1..Len(called.array) : called.array[i] = e})
    /\ Len(called.array) <= 1 => returned = called.array

\* The sequence s is non-decreasing by url, and by method among equal urls,
\* when strings are compared code unit by code unit.
OrdinalSorted(s) ==
  \A i \in 1..(Len(s) - 1) :
    \/ OrdinalCompare(s[i].url, s[i + 1].url) < 0
    \/ /\ s[i].url = s[i + 1].url
       /\ OrdinalCompare(s[i].method, s[i + 1].method) <= 0

\* C31, as stated: the sort compares url and method code unit by code unit,
\* so that an uppercase letter comes before any lowercase letter: every
\* sequence handed to the handler is non-decreasing in that order.
C31_OrdinalOrder == pc = "handler" => OrdinalSorted(sortedRequests)

\* C31, amended: the sort compares with localeCompare. Digits are compared
\* one by one ("/10" before "/2"), but letters are compared without case
\* first and a lowercase letter comes before the same uppercase letter: in
\* every sequence handed to the handler the requests of "/a" come before
\* those of "/B", and "GET" before "POST" among equal urls.
C31_CollationOrder ==
  /\ LocaleCompare(<<47, 49, 48>>, <<47, 50>>) < 0
  /\ LocaleCompare(<<97>>, <<65>>) < 0
  /\ LocaleCompare(<<97>>, <<66>>) < 0
  /\ pc = "handler" =>
       \A i, j \in 1..Len(sortedRequests) :
         ( \/ sortedRequests[i].url = UrlA /\ sortedRequests[j].url = UrlB
           \/ /\ sortedRequests[i].url = sortedRequests[j].url
              /\ sortedRequests[i].method = GET
              /\ sortedRequests[j].method = POST ) => i < j

\* The handler holds "/a" before "/B", which arrived first: the order of the
\* code units would have "/B" (66) before "/a" (97).
C31_Witness ==
  /\ pc = "handler"
  /\ Len(currentBatch) = 2
  /\ currentBatch[1].url = UrlB
  /\ currentBatch[2].url = UrlA
  /\ sortedRequests[1].url = UrlA
  /\ sortedRequests[2].url = UrlB
  /\ ~OrdinalSorted(sortedRequests)

\* C32: checkpoint(), called by the user or by the timer, clears the timer
\* before it calls the handler: while the handler runs no timer is pending
\* and none is remembered, and the same holds when checkpoint() has ended,
\* by a return or by an exception of the handler or without a call of it,
\* unless the handler has itself made an observation in the meantime.
C32_TimerClearedFirst ==
  ((pc = "handler" \/ lastOp.op \in {"checkpoint", "return", "throw"})
     /\ lastOp.by # "handler") =>
    (timers = {} /\ timeoutId = 0)

\* The handler runs in a checkpoint() the user called while the timer of two
\* observations still had time left, and no timer is pending.
C32_Witness ==
  /\ pc = "handler"
  /\ lastOp.by = "manual"
  /\ lastOp.left >= 1
  /\ Len(sortedRequests) = 2
  /\ timers = {}
  /\ timeoutId = 0

\* C34: with timeoutMs and a handler that returns and does not call the
\* Capturer, between two operations a timer is pending exactly when the batch
\* holds a request; so a checkpoint() the timer calls finds a batch and calls
\* the handler.
C34_ArmedIffNonEmpty ==
  /\ pc = "idle" => (timers # {} <=> currentBatch # <<>>)
  /\ pc = "idle" => (timeoutId # 0 <=> currentBatch # <<>>)
  /\ (lastOp.op = "checkpoint" /\ lastOp.by = "timer") =>
       (pc = "handler" /\ lastOp.found >= 1 /\ Len(sortedRequests) = lastOp.found)

\* After a checkpoint() of the user, the timer of a later observation has
\* fired and its checkpoint() has called the handler with that observation.
C34_Witness ==
  /\ lastOp.op = "checkpoint"
  /\ lastOp.by = "timer"
  /\ pc = "handler"
  /\ manualCheckpoints >= 1
  /\ Total(delivered) >= 2
  /\ Len(sortedRequests) = 1

\* C35: with waitForCheckpoint, the gate queue is as long as the batch in
\* every state: a request enters both in one step and a checkpoint() that
\* runs to its end empties both; and a checkpoint() that found the batch
\* empty releases no adapter.
C35_PendingMatchesBatch ==
  waitForCheckpoint =>
    /\ Len(pendingResponses) = Len(currentBatch)
    /\ pendingResponses = batchIds
    /\ (lastOp.op = "checkpoint" /\ lastOp.found = 0) =>
         (microtasks = <<>> /\ \A i \in RequestIds : inflight[i].stage # "released")

\* Two adapters wait at the gate and the batch holds their two requests.
C35_Witness ==
  /\ waitForCheckpoint
  /\ pc = "idle"
  /\ Len(pendingResponses) = 2
  /\ Len(currentBatch) = 2
  /\ \A i \in Range(pendingResponses) : inflight[i].stage = "waiting"

\* C36: the timer calls checkpoint() only when timeoutMs have passed since
\* the last observation, so observations that keep arriving sooner postpone
\* it each time; and a step that is no checkpoint() calls no handler, takes
\* nothing from the batch, and releases no adapter that waits.
C36_PostponedWhileBusy ==
  [][ /\ (lastOp'.op = "checkpoint" /\ lastOp'.by = "timer") => idleFor >= TimeoutTicks
      /\ lastOp'.op \in {"addRequest", "request", "text", "tick"} =>
           /\ delivered' = delivered
           /\ pc' = "idle"
           /\ Len(currentBatch') >= Len(currentBatch)
           /\ SubSeq(currentBatch', 1, Len(currentBatch)) = currentBatch
           /\ SubSeq(pendingResponses', 1, Len(pendingResponses)) = pendingResponses
           /\ microtasks' = microtasks
           /\ \A i \in RequestIds :
                inflight[i].stage = "waiting" => inflight'[i].stage = "waiting" ]_vars

\* The second request came when the timer of the first had run part of its
\* time: the batch holds both, both adapters wait, the timer starts anew and
\* the handler has not been called.
C36_Witness ==
  /\ waitForCheckpoint
  /\ lastOp.op = "addRequest"
  /\ lastOp.left >= 1
  /\ lastOp.left < TimeoutTicks
  /\ Len(currentBatch) = MaxRequests
  /\ \A i \in RequestIds : inflight[i].stage = "waiting"
  /\ timers = {[id |-> timeoutId, remaining |-> TimeoutTicks]}
  /\ Total(delivered) = 0
  /\ manualCheckpoints = 0

\* C38: a request the handler passes to addRequest while checkpoint() runs
\* it is gone when that checkpoint() has ended, without having been handed to
\* the handler, while the timer it armed is still pending; and the
\* checkpoint() that timer calls later, finding no batch, calls no handler.
C38_ReentrantDropped ==
  /\ (lastOp.op \in {"return", "throw"} /\ lastOp.by = "handler") =>
       /\ currentBatch = <<>>
       /\ timers = {[id |-> timeoutId, remaining |-> TimeoutTicks]}
  /\ (lastOp.op = "checkpoint" /\ lastOp.found = 0) =>
       (pc = "idle" /\ sortedRequests = <<>>)
  /\ Total(delivered) <= Total(observed)

\* C33: with timeoutMs and waitForCheckpoint, a handler that returns and
\* finitely many requests, every adapter that waits at the gate goes on to
\* return undefined, though the user never calls checkpoint().
C33_EveryWaiterResumes ==
  \A i \in RequestIds :
    (inflight[i].stage = "waiting") ~> (inflight[i].stage = "fallthrough")

\* All the requests of the run have waited at the gate and have fallen
\* through after checkpoints of the timer alone.
C33_Witness ==
  /\ waitForCheckpoint
  /\ manualCheckpoints = 0
  /\ handled = RequestIds
  /\ \A i \in RequestIds : inflight[i].stage = "fallthrough"
  /\ pendingResponses = <<>>
  /\ timers = {}

\* C37: the array the handler is given is a copy the library never touches
\* again: every array handed over holds what the handler left in it, whatever
\* was observed, cleared or checkpointed since; it is not the batch array;
\* and a handler that changes the array it was given leaves the batch as
\* it was.
C37_FreshCopy ==
  /\ [](\A k \in 1..Len(kept) :
          /\ kept[k].ref # currentBatch
          /\ heap[kept[k].ref] = kept[k].content
          /\ \A j \in 1..Len(kept) : kept[j].ref = kept[k].ref => j = k)
  /\ [][lastOp'.by = "handler" => heap'[currentBatch] = heap[currentBatch]]_vars

\* The handler kept the array of a first checkpoint(), which still holds
\* its two requests after the batch was emptied and a second checkpoint() has
\* handed over another request, and it has emptied the array it holds now
\* while the batch still has its request.
C37_Witness ==
  /\ Len(kept) = 2
  /\ Len(kept[1].content) = 2
  /\ heap[kept[1].ref] = kept[1].content
  /\ pc = "handler"
  /\ lastOp.by = "handler"
  /\ heap[sortedRequests] = <<>>
  /\ Len(heap[currentBatch]) = 1

====
